---------------------------- MODULE Spec2Model ----------------------------
(* A model of salt-ldap: the LDAP authenticator (auth/ldap.py) and the     *)
(* LDAP pillar source (pillar/pillar_ldap.py).                             *)
(*                                                                         *)
(* Three specifications share the module's variables:                      *)
(*   SpecAuth    one call of auth(username, password);                     *)
(*   SpecPillar  one call of ext_pillar(config_file);                      *)
(*   SpecFlat    one call of _result_to_dict(data, attrs).                 *)
(*                                                                         *)
(* Python values are tagged records, so that values of different Python    *)
(* types are unequal: None is [none |-> TRUE], a list is [list |-> seq],   *)
(* a string is [str |-> seq of tokens].  A string is a sequence of tokens  *)
(* ("cn", "=", "Alice"): the separator "=" is a token of its own, so       *)
(* membership ('=' in item) and item.split('=') are computed, not assumed. *)
(* A dict is a function; the empty dict is <<>>.                           *)
EXTENDS Integers, Sequences, FiniteSets, TLC

VARIABLES
    \* ---- auth/ldap.py: one call of auth() ----
    username,     \* auth's argument
    password,     \* auth's argument
    directory,    \* the LDAP server's entries: dn -> [mail, pw]
    anonOk,       \* whether the server accepts a bind with an empty password
    filter,       \* auth's local: the rendered filter
    connargs,     \* auth's local: the connection dictionary
    result,       \* auth's local: the search result (a list of entries)
    a_pc,         \* auth's position
    a_ret,        \* auth's return value
    a_exc,        \* the exception auth ended with
    binds,        \* history: every simple_bind_s attempted, in order
    searches,     \* history: number of search_s calls made
    \* ---- pillar/pillar_ldap.py: one call of ext_pillar() ----
    isfile,       \* os.path.isfile(config_file)
    rendered,     \* what rendering and parsing the file gives
    opts,         \* ext_pillar's local opts: [bound, val]
    data,         \* ext_pillar's local data
    idx,          \* position of the for loop in opts['search_order']
    p_pc,         \* ext_pillar's position
    p_exc,        \* the exception ext_pillar ended with
    log,          \* history: one record per source the loop took up
    \* ---- pillar/pillar_ldap.py: one call of _result_to_dict() ----
    f_data,       \* _result_to_dict's argument data
    f_attrs,      \* _result_to_dict's argument attrs
    f_order,      \* the order in which `for key in data` visits the keys
    f_pc,         \* position of the call
    f_out         \* its outcome: [exc, val]

authVars == <<username, password, directory, anonOk, filter, connargs, result,
              a_pc, a_ret, a_exc, binds, searches>>
pillarVars == <<isfile, rendered, opts, data, idx, p_pc, p_exc, log>>
flatVars == <<f_data, f_attrs, f_order, f_pc, f_out>>
vars == <<authVars, pillarVars, flatVars>>

\* ------------------------------------------------------------------------
\* Bounds of the model

\* Number of user entries the directory may hold (besides the service entry).
MaxEntries == 2
\* Length of opts['search_order'].
MaxSources == 2
\* Number of values of one attribute of a search result.
MaxVals == 2

\* ------------------------------------------------------------------------
\* Python values

None == [none |-> TRUE]
True == [bool |-> TRUE]
False == [bool |-> FALSE]
PyBool(b) == [bool |-> b]
PyList(s) == [list |-> s]
PyStr(s) == [str |-> s]
EmptyDict == <<>>
IsEmpty(d) == DOMAIN d = {}

\* d.update(r), and d[k] = v.
Update_keepfirst(d, r) ==
    [k \in DOMAIN d \cup DOMAIN r |-> IF k \in DOMAIN d THEN d[k] ELSE r[k]]

Update(d, r) == [k \in DOMAIN d \cup DOMAIN r |-> IF k \in DOMAIN r THEN r[k] ELSE d[k]]
SetItem(d, k, v) == [j \in DOMAIN d \cup {k} |-> IF j = k THEN v ELSE d[j]]

NoExc == [type |-> "none", msg |-> ""]
Exc(t, m) == [type |-> t, msg |-> m]

\* All orderings of a finite set, as sequences without repetition.
Orderings(S) ==
    {s \in [1..Cardinality(S) -> S] : \A i, j \in 1..Cardinality(S) : s[i] = s[j] => i = j}

\* ------------------------------------------------------------------------
\* auth/ldap.py

\* __opts__, the module's defaults.  The filter template is a sequence of
\* parts: literal text, or the variable a {{ ... }} names.
auth_opts ==
    [server |-> "localhost", port |-> "389", tls |-> FALSE, scope |-> 2,
     basedn |-> "o=acme,c=gb", binddn |-> 0, bindpw |-> "sssssh",
     filter |-> <<[lit |-> "emailAddress="], [var |-> "username"]>>]

\* The distinguished name of the service account, 'uid=admin,o=acme,c=gb';
\* user entries are the distinguished names 1..MaxEntries.
AdminDN == 0

Usernames == {"alice@x.com", "bob@x.com", "*"}
Passwords == {"secret", "sssssh", ""}
Mails == {"alice@x.com", "bob@x.com"}
StoredPws == {"secret", "sssssh"}

\* _render_template: every {{ name }} is replaced by the value of name in
\* the context {'username': username}; a name the context lacks renders as
\* the empty string (jinja2's default Undefined).
_render_template(template, user) ==
    [i \in 1..Len(template) |->
        IF "lit" \in DOMAIN template[i] THEN template[i].lit
        ELSE IF template[i].var = "username" THEN user ELSE ""]

\* The server's simple bind: the server is reachable, the entry exists, and
\* the password is the entry's; an empty password is an unauthenticated
\* bind, which succeeds when the server allows it.
simple_bind_s(dir, anon, up, dn, pw) ==
    /\ up
    /\ dn \in DOMAIN dir
    /\ IF pw = "" THEN anon ELSE dir[dn].pw = pw

\* _LDAPConnection.__init__: TRUE when the bind succeeds; any exception of
\* initialize / start_tls_s / simple_bind_s becomes CommandExecutionError.
_LDAPConnection_nocheck(dir, anon, up, args) == TRUE

_LDAPConnection_anypw(dir, anon, up, args) == up /\ args.binddn \in DOMAIN dir

_LDAPConnection(dir, anon, up, args) ==
    simple_bind_s(dir, anon, up, args.binddn, args.bindpw)

\* The server's search for the rendered filter (emailAddress=<value>) under
\* basedn: the entries whose mail is <value>, every entry that has a mail
\* when <value> is the wildcard "*".
search_s(dir, flt) ==
    {dn \in DOMAIN dir :
        /\ Len(flt) = 2
        /\ flt[1] = "emailAddress="
        /\ (flt[2] = "*" \/ dir[dn].mail = flt[2])}

Directories ==
    UNION {[0..n -> [mail : Mails \cup {"admin@x.com"}, pw : StoredPws]] : n \in 0..MaxEntries}

AuthIdle ==
    /\ username = "" /\ password = "" /\ directory = <<>> /\ anonOk = FALSE
    /\ filter = <<>> /\ connargs = <<>> /\ result = <<>>
    /\ a_pc = "idle" /\ a_ret = None /\ a_exc = NoExc
    /\ binds = <<>> /\ searches = 0

AuthInit ==
    /\ username \in Usernames
    /\ password \in Passwords
    /\ directory \in {d \in Directories :
                        /\ d[AdminDN].mail = "admin@x.com"
                        /\ \A n \in DOMAIN d \ {AdminDN} : d[n].mail \in Mails}
    /\ anonOk \in BOOLEAN
    /\ filter = <<>>
    /\ connargs = <<>>
    /\ result = <<>>
    /\ a_pc = "start"
    /\ a_ret = None
    /\ a_exc = NoExc
    /\ binds = <<>>
    /\ searches = 0

\* auth, lines 94-99: what the length of the search result decides.
match_count_nomultiple(res) ==
    IF Len(res) < 1 THEN "none" ELSE "one"

match_count(res) ==
    IF Len(res) < 1 THEN "none"
    ELSE IF Len(res) > 1 THEN "multiple"
    ELSE "one"

\* auth, lines 80-85: render the filter, build the connection dictionary.
AuthSetup ==
    /\ a_pc = "start"
    /\ filter' = _render_template(auth_opts.filter, username)
    /\ connargs' = [binddn |-> auth_opts.binddn, bindpw |-> auth_opts.bindpw]
    /\ a_pc' = "connect"
    /\ UNCHANGED <<username, password, directory, anonOk, result, a_ret, a_exc,
                   binds, searches>>
    /\ UNCHANGED <<pillarVars, flatVars>>

\* auth, line 88: the bind with the configured credentials; its failure
\* leaves auth with CommandExecutionError.
AuthInitialBind ==
    /\ a_pc = "connect"
    /\ \E up \in BOOLEAN :
        LET ok == _LDAPConnection(directory, anonOk, up, connargs) IN
        /\ binds' = Append(binds, [dn |-> connargs.binddn, pw |-> connargs.bindpw,
                                   accepted |-> simple_bind_s(directory, anonOk, up,
                                                              connargs.binddn,
                                                              connargs.bindpw)])
        /\ IF ok
           THEN a_pc' = "search" /\ a_exc' = a_exc
           ELSE /\ a_pc' = "raised"
                /\ a_exc' = Exc("CommandExecutionError", "Failed to bind to LDAP server")
    /\ UNCHANGED <<username, password, directory, anonOk, filter, connargs, result,
                   a_ret, searches>>
    /\ UNCHANGED <<pillarVars, flatVars>>

\* auth, lines 93-103: the search, the two early returns, and the update of
\* the connection dictionary.  search_s itself may raise (the server went
\* away): nothing in auth catches that.
AuthSearch ==
    /\ a_pc = "search"
    /\ searches' = searches + 1
    /\ \E up \in BOOLEAN :
        IF ~up
        THEN /\ a_pc' = "raised"
             /\ a_exc' = Exc("LDAPError", "search_s")
             /\ UNCHANGED <<result, connargs, a_ret>>
        ELSE \E res \in Orderings(search_s(directory, filter)) :
             /\ result' = res
             /\ IF match_count(res) = "none"
                THEN a_ret' = False /\ a_pc' = "done" /\ connargs' = connargs
                ELSE IF match_count(res) = "multiple"
                THEN a_ret' = False /\ a_pc' = "done" /\ connargs' = connargs
                ELSE /\ connargs' = [binddn |-> res[1], bindpw |-> password]
                     /\ a_pc' = "rebind"
                     /\ a_ret' = a_ret
             /\ a_exc' = a_exc
    /\ UNCHANGED <<username, password, directory, anonOk, filter, binds>>
    /\ UNCHANGED <<pillarVars, flatVars>>

\* auth, lines 106-113: the bind as the entry found, with the caller's
\* password; every exception is caught and gives False.
AuthUserBind ==
    /\ a_pc = "rebind"
    /\ \E up \in BOOLEAN :
        LET ok == _LDAPConnection(directory, anonOk, up, connargs) IN
        /\ binds' = Append(binds, [dn |-> connargs.binddn, pw |-> connargs.bindpw,
                                   accepted |-> simple_bind_s(directory, anonOk, up,
                                                              connargs.binddn,
                                                              connargs.bindpw)])
        /\ a_ret' = PyBool(ok)
    /\ a_pc' = "done"
    /\ UNCHANGED <<username, password, directory, anonOk, filter, connargs, result,
                   a_exc, searches>>
    /\ UNCHANGED <<pillarVars, flatVars>>

AuthNext ==
    \/ AuthSetup
    \/ AuthInitialBind
    \/ AuthSearch
    \/ AuthUserBind

\* ------------------------------------------------------------------------
\* pillar/pillar_ldap.py: strings, and _result_to_dict

\* '=' in item
HasEq(item) == \E i \in 1..Len(item) : item[i] = "="

\* Index of the first '=' of an item that has one.
FirstEq(item) == CHOOSE i \in 1..Len(item) : item[i] = "=" /\ \A j \in 1..(i - 1) : item[j] # "="

\* item.split('='): the pieces between the separators, one more than there
\* are separators.
RECURSIVE split(_)
split(item) ==
    IF ~HasEq(item) THEN <<item>>
    ELSE <<SubSeq(item, 1, FirstEq(item) - 1)>>
         \o split(SubSeq(item, FirstEq(item) + 1, Len(item)))

\* key in attrs
InList_none(key, lst) == FALSE

InList(key, lst) == \E i \in 1..Len(lst) : lst[i] = key

\* _result_to_dict, lines 81-86: the loop over the values of a tagged
\* attribute.  acc is [exc, val]: the exception raised so far, the result
\* built so far.  `k, v = item.split('=')` raises ValueError unless the
\* split gives exactly two pieces.
RECURSIVE scan_items(_, _, _, _)
scan_items(items, key, whole, acc) ==
    IF items = <<>> \/ acc.exc # NoExc THEN acc
    ELSE LET item == Head(items) IN
         IF HasEq(item)
         THEN LET parts == split(item) IN
              IF Len(parts) # 2
              THEN [exc |-> Exc("ValueError", "too many values to unpack"), val |-> acc.val]
              ELSE scan_items(Tail(items), key, whole,
                              [acc EXCEPT !.val = SetItem(acc.val, parts[1], PyStr(parts[2]))])
         ELSE scan_items(Tail(items), key, whole,
                         [acc EXCEPT !.val = SetItem(acc.val, key, whole)])

\* _result_to_dict, lines 79-88: the loop over the keys of data, visited in
\* the order ord.
RECURSIVE scan_keys(_, _, _, _)
scan_keys(ord, dat, attrs, acc) ==
    IF ord = <<>> \/ acc.exc # NoExc THEN acc
    ELSE LET key == Head(ord) IN
         IF InList(key, attrs)
         THEN scan_keys(Tail(ord), dat, attrs,
                        scan_items(dat[key].list, key, dat[key], acc))
         ELSE scan_keys(Tail(ord), dat, attrs,
                        [acc EXCEPT !.val = SetItem(acc.val, key, dat[key])])

\* _result_to_dict(data, attrs), with the order ord in which the dict data
\* yields its keys.  `if not attrs` takes None and the empty list alike.
_result_to_dict(dat, attrs, ord) ==
    scan_keys(ord, dat,
              IF attrs = None \/ attrs = PyList(<<>>) THEN <<>> ELSE attrs.list,
              [exc |-> NoExc, val |-> EmptyDict])

\* Sequences over S of length at most n.
SeqsUpTo(S, n) == UNION {[1..m -> S] : m \in 0..n}

\* The attribute mappings of a search result entry: some of the names, each
\* with a list of at most n values.
RawResults(names, items, n) ==
    UNION {[D -> {PyList(l) : l \in SeqsUpTo(items, n)}] : D \in SUBSET names}

AttrNames == {<<"cn">>, <<"saltKeyValue">>}

\* ------------------------------------------------------------------------
\* One call of _result_to_dict

FlatItems ==
    {<<"Alice">>,
     <<"ntpserver", "=", "ntp.acme.local">>,
     <<"ntpserver", "=", "ntp2.acme.local">>,
     <<"cn", "=", "Bob">>,
     <<"ntpserver", "=", "b", "=", "c">>}

FlatAttrs ==
    {None, PyList(<<>>), PyList(<< <<"saltKeyValue">> >>),
     PyList(<< <<"saltKeyValue">>, <<"cn">> >>)}

FlatIdle ==
    /\ f_data = EmptyDict /\ f_attrs = None /\ f_order = <<>>
    /\ f_pc = "idle" /\ f_out = [exc |-> NoExc, val |-> EmptyDict]

FlatInit ==
    /\ f_data \in RawResults(AttrNames, FlatItems, MaxVals)
    /\ f_attrs \in FlatAttrs
    /\ f_order = <<>>
    /\ f_pc = "call"
    /\ f_out = [exc |-> NoExc, val |-> EmptyDict]

\* _result_to_dict returns its result.
FlatReturn ==
    /\ f_pc = "call"
    /\ \E ord \in Orderings(DOMAIN f_data) :
        /\ _result_to_dict(f_data, f_attrs, ord).exc = NoExc
        /\ f_order' = ord
        /\ f_out' = _result_to_dict(f_data, f_attrs, ord)
    /\ f_pc' = "return"
    /\ UNCHANGED <<f_data, f_attrs>>
    /\ UNCHANGED <<authVars, pillarVars>>

\* _result_to_dict raises.
FlatRaise ==
    /\ f_pc = "call"
    /\ \E ord \in Orderings(DOMAIN f_data) :
        /\ _result_to_dict(f_data, f_attrs, ord).exc # NoExc
        /\ f_order' = ord
        /\ f_out' = [exc |-> _result_to_dict(f_data, f_attrs, ord).exc, val |-> EmptyDict]
    /\ f_pc' = "raised"
    /\ UNCHANGED <<f_data, f_attrs>>
    /\ UNCHANGED <<authVars, pillarVars>>

FlatNext ==
    \/ FlatReturn
    \/ FlatRaise

\* ------------------------------------------------------------------------
\* pillar/pillar_ldap.py: _config, _do_search, ext_pillar

\* The names bound in the module's namespace: its imports (lines 10-27),
\* its logger and its functions.
pillar_globals ==
    {"os", "logging", "traceback", "salt", "string_types", "yaml", "Environment",
     "FileSystemLoader", "ldap", "has_ldap", "log", "__virtual__", "_render_template",
     "_config", "_result_to_dict", "_do_search", "ext_pillar"}

\* Builtin exception classes the code's failures raise.
py_builtins == {"KeyError", "IndexError", "ValueError", "NameError", "UnboundLocalError"}

\* `raise name(msg)`: the name is looked up first; a name bound nowhere
\* raises NameError instead.
raise(name, msg) ==
    IF name \in pillar_globals \cup py_builtins
    THEN Exc(name, msg)
    ELSE Exc("NameError", name)

\* _config(name, conf): conf[name], None when conf lacks it.
_config(name, conf) == IF name \in DOMAIN conf THEN conf[name] ELSE None

\* What __salt__['ldap.search'] does for one source: it raises, or returns
\* {'results': [...]}, a list of (dn, attribute mapping).
NoResponse == [kind |-> "notcalled"]

PillarItems == {<<"Alice">>, <<"cn", "=", "Bob">>}

Responses ==
    {[kind |-> "raise"], [kind |-> "ok", results |-> <<>>]}
    \cup {[kind |-> "ok", results |-> <<[dn |-> "cn=host1,ou=hosts,o=acme", attrs |-> raw]>>] :
            raw \in RawResults(AttrNames, PillarItems, 1)}

\* Whether the expression of line 110 raises: the search itself, or the
\* subscripts ['results'][0][1] on a reply without entries (IndexError).
search_raises(resp) == resp.kind = "raise" \/ Len(resp.results) = 0

\* _do_search, lines 111-114: the except clause logs and returns {}.
search_failed_reraise == [exc |-> Exc("LDAPError", "search"), val |-> EmptyDict, searched |-> TRUE]

search_failed == [exc |-> NoExc, val |-> EmptyDict, searched |-> TRUE]

\* _do_search(conf): [exc, val, searched].  searched tells whether
\* __salt__['ldap.search'] was called.  ord is the order in which
\* _result_to_dict visits the keys of raw_result.
_do_search(conf, resp, ord) ==
    IF "filter" \notin DOMAIN conf
    THEN [exc |-> raise("SaltInvocationError", "missing filter"), val |-> EmptyDict,
          searched |-> FALSE]
    ELSE LET attrs == _config("attrs", conf) IN
         IF search_raises(resp)
         THEN search_failed
         ELSE LET raw_result == resp.results[1].attrs IN
              IF ~IsEmpty(raw_result)
              THEN LET r == _result_to_dict(raw_result, attrs, ord) IN
                   [exc |-> r.exc, val |-> IF r.exc = NoExc THEN r.val ELSE EmptyDict,
                    searched |-> TRUE]
              ELSE [exc |-> raise("UnboundLocalError",
                                  "local variable 'result' referenced before assignment"),
                    val |-> EmptyDict, searched |-> TRUE]

\* The keys of raw_result, for the order of the loop of _result_to_dict.
RawKeys(resp) ==
    IF resp.kind = "ok" /\ Len(resp.results) > 0 THEN DOMAIN resp.results[1].attrs ELSE {}

SourceNames == {"ntp", "dns"}

\* The search specifications a config may give a source.
Confs ==
    {("dn" :> PyStr(<<"ou=hosts,o=acme">>)),
     ("dn" :> PyStr(<<"ou=hosts,o=acme">>)) @@ ("filter" :> PyStr(<<"(cn=host1)">>)),
     ("dn" :> PyStr(<<"ou=hosts,o=acme">>)) @@ ("filter" :> PyStr(<<"(cn=host1)">>))
        @@ ("attrs" :> PyList(<< <<"saltKeyValue">> >>))}

\* What rendering and parsing the config file gives: a mapping with or
\* without search_order, giving some of the sources a specification.
Configs ==
    {Update(srcs, ord) :
        srcs \in UNION {[D -> Confs] : D \in SUBSET SourceNames},
        ord \in {EmptyDict} \cup
                {("search_order" :> PyList(o)) : o \in SeqsUpTo(SourceNames, MaxSources)}}

PillarIdle ==
    /\ isfile = FALSE /\ rendered = [ok |-> FALSE]
    /\ opts = [bound |-> FALSE, val |-> EmptyDict]
    /\ data = EmptyDict /\ idx = 0 /\ p_pc = "idle" /\ p_exc = NoExc /\ log = <<>>

PillarInit ==
    /\ isfile \in BOOLEAN
    /\ rendered \in {[ok |-> FALSE]} \cup {[ok |-> TRUE, val |-> c] : c \in Configs}
    /\ (~isfile => rendered = [ok |-> FALSE])
    /\ opts = [bound |-> FALSE, val |-> EmptyDict]
    /\ data = EmptyDict
    /\ idx = 0
    /\ p_pc = "start"
    /\ p_exc = NoExc
    /\ log = <<>>

\* ext_pillar, lines 123-137: opts is assigned only when the file exists
\* and renders and parses; both failures are logged and nothing else.
PillarReadConfig ==
    /\ p_pc = "start"
    /\ IF isfile /\ rendered.ok
       THEN opts' = [bound |-> TRUE,
                     val |-> SetItem(rendered.val, "conf_file", PyStr(<<"config_file">>))]
       ELSE opts' = opts
    /\ p_pc' = "enter_loop"
    /\ UNCHANGED <<isfile, rendered, data, idx, p_exc, log>>
    /\ UNCHANGED <<authVars, flatVars>>

\* ext_pillar, lines 139-140: data = {}, and the evaluation of
\* opts['search_order'].
PillarEnterLoop ==
    /\ p_pc = "enter_loop"
    /\ data' = EmptyDict
    /\ IF ~opts.bound
       THEN /\ p_pc' = "raised"
            /\ p_exc' = raise("UnboundLocalError",
                              "local variable 'opts' referenced before assignment")
            /\ idx' = idx
       ELSE IF "search_order" \notin DOMAIN opts.val
       THEN /\ p_pc' = "raised"
            /\ p_exc' = raise("KeyError", "search_order")
            /\ idx' = idx
       ELSE /\ p_pc' = "loop"
            /\ p_exc' = p_exc
            /\ idx' = 1
    /\ UNCHANGED <<isfile, rendered, opts, log>>
    /\ UNCHANGED <<authVars, flatVars>>

\* ext_pillar, lines 140-144: one turn of the loop, for a source the config
\* gives no specification: opts[source] raises KeyError.
PillarSourceMissing ==
    /\ p_pc = "loop"
    /\ idx <= Len(opts.val["search_order"].list)
    /\ LET source == opts.val["search_order"].list[idx] IN
        /\ source \notin DOMAIN opts.val
        /\ p_pc' = "raised"
        /\ p_exc' = raise("KeyError", source)
        /\ log' = Append(log, [source |-> source, resp |-> NoResponse, searched |-> FALSE,
                               exc |-> raise("KeyError", source), result |-> EmptyDict])
    /\ UNCHANGED <<isfile, rendered, opts, data, idx>>
    /\ UNCHANGED <<authVars, flatVars>>

\* ext_pillar, lines 140-144: one turn of the loop: _do_search for the
\* source, and data.update(result) when the result is not empty.
PillarSource ==
    /\ p_pc = "loop"
    /\ idx <= Len(opts.val["search_order"].list)
    /\ LET source == opts.val["search_order"].list[idx] IN
        /\ source \in DOMAIN opts.val
        /\ LET config == opts.val[source] IN
           \E resp \in (IF "filter" \in DOMAIN config THEN Responses ELSE {NoResponse}) :
           \E ord \in Orderings(RawKeys(resp)) :
              LET r == _do_search(config, resp, ord) IN
              /\ log' = Append(log, [source |-> source, resp |-> resp,
                                     searched |-> r.searched, exc |-> r.exc,
                                     result |-> r.val])
              /\ IF r.exc # NoExc
                 THEN /\ p_pc' = "raised"
                      /\ p_exc' = r.exc
                      /\ UNCHANGED <<data, idx>>
                 ELSE /\ data' = IF ~IsEmpty(r.val) THEN Update(data, r.val) ELSE data
                      /\ idx' = idx + 1
                      /\ UNCHANGED <<p_pc, p_exc>>
    /\ UNCHANGED <<isfile, rendered, opts>>
    /\ UNCHANGED <<authVars, flatVars>>

\* ext_pillar, line 145: the loop is over, data is returned.
PillarReturn ==
    /\ p_pc = "loop"
    /\ idx > Len(opts.val["search_order"].list)
    /\ p_pc' = "done"
    /\ UNCHANGED <<isfile, rendered, opts, data, idx, p_exc, log>>
    /\ UNCHANGED <<authVars, flatVars>>

PillarNext ==
    \/ PillarReadConfig
    \/ PillarEnterLoop
    \/ PillarSourceMissing
    \/ PillarSource
    \/ PillarReturn

\* ------------------------------------------------------------------------
\* Specifications

InitAuth == AuthInit /\ PillarIdle /\ FlatIdle
SpecAuth == InitAuth /\ [][AuthNext]_vars

InitPillar == AuthIdle /\ PillarInit /\ FlatIdle
SpecPillar == InitPillar /\ [][PillarNext]_vars

InitFlat == AuthIdle /\ PillarIdle /\ FlatInit
SpecFlat == InitFlat /\ [][FlatNext]_vars

\* ------------------------------------------------------------------------
\* Properties of auth

\* The call found exactly one entry: the search ran and its result has
\* length one.
SingleMatch == searches = 1 /\ a_exc = NoExc /\ Len(result) = 1

\* The search ran, did not raise, and found no entry or several.
NoOrManyMatches ==
    /\ searches = 1
    /\ a_exc = NoExc
    /\ a_pc # "search"
    /\ Len(result) # 1

\* C1: when the service bind succeeded and the search found exactly one
\* entry, auth binds a second time, as that entry with the caller's
\* password, and returns True if the server accepts that bind and False if
\* it does not; it never ends with an exception.
C1_SingleMatchTrueIffRebind ==
    SingleMatch =>
        /\ a_pc \in {"rebind", "done"}
        /\ binds[1].accepted
        /\ a_pc = "done" =>
            /\ Len(binds) = 2
            /\ binds[2].dn = result[1]
            /\ binds[2].pw = password
            /\ (a_ret = True <=> binds[2].accepted)
            /\ (a_ret = False <=> ~binds[2].accepted)

C1_Witness ==
    /\ SingleMatch
    /\ a_pc = "done"
    /\ a_ret = True
    /\ binds[2].accepted
    /\ password # ""

\* C2: when the search found no entry or several, auth returns False and
\* the only bind of the call is the service bind: no bind with the caller's
\* password is attempted.
C2_NoSecondBindUnlessSingle ==
    NoOrManyMatches =>
        /\ a_pc = "done"
        /\ a_ret = False
        /\ Len(binds) = 1
        /\ binds[1].dn = auth_opts.binddn
        /\ binds[1].pw = auth_opts.bindpw

C2_Witness ==
    /\ NoOrManyMatches
    /\ Len(result) > 1
    /\ a_pc = "done"

\* C3: when the service bind fails, auth ends with CommandExecutionError,
\* having returned nothing, searched nothing and bound only once; when the
\* second bind fails, auth ends normally and returns False.
C3_ServiceBindFatalUserBindFalse ==
    /\ (Len(binds) >= 1 /\ ~binds[1].accepted) =>
            /\ a_pc = "raised"
            /\ a_exc.type = "CommandExecutionError"
            /\ a_ret = None
            /\ searches = 0
            /\ Len(binds) = 1
    /\ (Len(binds) = 2 /\ ~binds[2].accepted) =>
            /\ a_pc = "done"
            /\ a_exc = NoExc
            /\ a_ret = False

C3_Witness ==
    /\ a_pc = "raised"
    /\ Len(binds) = 1
    /\ ~binds[1].accepted
    /\ a_exc.type = "CommandExecutionError"

\* ------------------------------------------------------------------------
\* Properties of ext_pillar

search_order == opts.val["search_order"].list

\* The search of the i-th source raised: the search itself, or the
\* subscripts of a reply that holds no entry.
SearchRaisedAt(l, i) ==
    /\ l[i].searched
    /\ \/ l[i].resp.kind = "raise"
       \/ l[i].resp.kind = "ok" /\ Len(l[i].resp.results) = 0

\* The search of the i-th source succeeded and its first entry has no
\* attribute.
EmptyEntryAt(l, i) ==
    /\ l[i].resp.kind = "ok"
    /\ Len(l[i].resp.results) > 0
    /\ IsEmpty(l[i].resp.results[1].attrs)

\* The last source whose result holds key k.
LastWith(k) ==
    CHOOSE i \in 1..Len(log) :
        /\ k \in DOMAIN log[i].result
        /\ \A j \in (i + 1)..Len(log) : k \notin DOMAIN log[j].result

\* C4: when the config file does not exist, ext_pillar returns the empty
\* mapping: it does not raise and searches nothing.
C4_MissingFileGivesEmpty ==
    ~isfile =>
        /\ p_pc # "raised"
        /\ log = <<>>
        /\ p_pc = "done" => IsEmpty(data)

\* C5: when ext_pillar returns, the sources were taken in the order of
\* search_order, the keys of the returned mapping are the keys of all the
\* sources' results, and each key has the value of the last source whose
\* result holds it.
C5_LastSourceWins ==
    p_pc = "done" =>
        /\ Len(log) = Len(search_order)
        /\ \A i \in 1..Len(log) : log[i].source = search_order[i]
        /\ DOMAIN data = UNION {DOMAIN log[i].result : i \in 1..Len(log)}
        /\ \A k \in DOMAIN data : data[k] = log[LastWith(k)].result[k]

C5_Witness ==
    /\ p_pc = "done"
    /\ \E i, j \in 1..Len(log) :
        /\ i < j
        /\ \E k \in DOMAIN log[i].result \cap DOMAIN log[j].result :
            /\ log[i].result[k] # log[j].result[k]
            /\ data[k] = log[j].result[k]

\* C6: a turn of the loop in which the search raises (or finds no entry)
\* gives the source an empty result, leaves data as it was, raises nothing
\* and moves on to the next source; and when ext_pillar returns, every
\* source after such a one was searched.
C6_SearchExceptionContained ==
    /\ [][(Len(log') = Len(log) + 1 /\ SearchRaisedAt(log', Len(log'))) =>
            /\ IsEmpty(log'[Len(log')].result)
            /\ log'[Len(log')].exc = NoExc
            /\ data' = data
            /\ p_pc' = "loop"
            /\ p_exc' = NoExc
            /\ idx' = idx + 1]_vars
    /\ [](p_pc = "done" =>
            \A i \in 1..Len(log) :
                SearchRaisedAt(log, i) =>
                    /\ Len(log) = Len(search_order)
                    /\ \A j \in (i + 1)..Len(search_order) : log[j].searched)

C6_Witness ==
    /\ p_pc = "done"
    /\ Len(log) = 2
    /\ ~IsEmpty(log[1].result)
    /\ SearchRaisedAt(log, 2)
    /\ data = log[1].result

\* C7: a source whose specification has no filter ends _do_search with the
\* invocation error 'missing filter', before any search.
C7_MissingFilterInvocationError ==
    \A i \in 1..Len(log) :
        (log[i].source \in DOMAIN opts.val /\ "filter" \notin DOMAIN opts.val[log[i].source]) =>
            /\ ~log[i].searched
            /\ log[i].exc = Exc("SaltInvocationError", "missing filter")

\* C8: a source that search_order names and the config does not specify is
\* skipped: the loop goes on and ext_pillar does not raise.
C8_UnspecifiedSourceSkipped ==
    \A i \in 1..Len(log) :
        log[i].source \notin DOMAIN opts.val =>
            /\ log[i].exc = NoExc
            /\ p_pc # "raised"

\* C10: a search that succeeds with a first entry that has no attribute
\* makes _do_search return the empty mapping: nothing is raised.
C10_EmptyEntryGivesEmptyMapping ==
    \A i \in 1..Len(log) :
        EmptyEntryAt(log, i) =>
            /\ log[i].exc = NoExc
            /\ IsEmpty(log[i].result)
            /\ p_pc # "raised"

\* ------------------------------------------------------------------------
\* Properties of _result_to_dict

\* The names the attrs list tags.
TaggedNames ==
    IF f_attrs = None THEN {} ELSE {f_attrs.list[i] : i \in 1..Len(f_attrs.list)}

\* The values of attribute key.
ItemsOf(key) == {f_data[key].list[i] : i \in 1..Len(f_data[key].list)}

\* The values of the tagged attributes of data.
TaggedItems == UNION {ItemsOf(key) : key \in DOMAIN f_data \cap TaggedNames}

EqCount(item) == Cardinality({i \in 1..Len(item) : item[i] = "="})

\* A value of the form key=value: one separator, the key before it, the
\* value after it.
KeyValueForm(item) == EqCount(item) = 1
SepOf(item) == CHOOSE i \in 1..Len(item) : item[i] = "="
KeyOf(item) == [i \in 1..(SepOf(item) - 1) |-> item[i]]
ValueOf(item) == [i \in 1..(Len(item) - SepOf(item)) |-> item[SepOf(item) + i]]

\* Every attribute that attrs does not name is in the result under its own
\* name, with its list of values.
UntaggedKept ==
    \A key \in DOMAIN f_data \ TaggedNames :
        /\ key \in DOMAIN f_out.val
        /\ f_out.val[key] = f_data[key]

\* Every attribute that attrs names and whose values all have the form
\* key=value gives one entry key -> value per value, and none under its own
\* name.
TaggedUnpacked ==
    \A key \in DOMAIN f_data \cap TaggedNames :
        (\A item \in ItemsOf(key) : KeyValueForm(item)) =>
            /\ \A item \in ItemsOf(key) :
                /\ KeyOf(item) \in DOMAIN f_out.val
                /\ f_out.val[KeyOf(item)] = PyStr(ValueOf(item))
            /\ key \notin DOMAIN f_out.val

\* The example of the documentation: {saltKeyValue: ['ntpserver=ntp.acme.local']}
\* with attrs ['saltKeyValue'] gives exactly {ntpserver: 'ntp.acme.local'}.
NtpExampleIn ==
    /\ f_data = (<<"saltKeyValue">> :> PyList(<< <<"ntpserver", "=", "ntp.acme.local">> >>))
    /\ f_attrs = PyList(<< <<"saltKeyValue">> >>)

NtpExample ==
    NtpExampleIn =>
        /\ DOMAIN f_out.val = {<<"ntpserver">>}
        /\ f_out.val[<<"ntpserver">>] = PyStr(<<"ntp.acme.local">>)

NoClash ==
    /\ \A item \in TaggedItems : EqCount(item) <= 1
    /\ \A item \in TaggedItems : KeyValueForm(item) => KeyOf(item) \notin DOMAIN f_data
    /\ \A a, b \in TaggedItems :
        (KeyValueForm(a) /\ KeyValueForm(b) /\ KeyOf(a) = KeyOf(b)) => ValueOf(a) = ValueOf(b)

=============================================================================
